---- MODULE Spec2Model ----
(***************************************************************************)
(* growlpeat: a Growl UDP repeater (src/growlpeat.py).                     *)
(*                                                                         *)
(* The model follows the program from start-up to the handling of          *)
(* datagrams: GrowlpeatConfig.read consumes the property file line by      *)
(* line, GrowlpeatConfig.validate decides whether the process exits,       *)
(* GrowlRelay binds the socket, and _RequestHandler.handle decodes each    *)
(* datagram (GrowlPacket), fans it out to GROWL_CLIENTS and prints one log *)
(* line.  Strings are sequences of byte values, indexed from 1 here and    *)
(* from 0 in the source.                                                   *)
(***************************************************************************)
EXTENDS Integers, Sequences, FiniteSets

VARIABLES
  pc,                 \* where the process is: read, validate, start, exit, idle, fanout, log, done
  linesRead,          \* lines of the property file consumed so far
  GROWLPEAT_PASSWORD, \* the global of the same name (None until a password line is read)
  GROWL_CLIENTS,      \* the global list of <<host, password>> pairs
  warnings,           \* number of "can not be resolved" warnings printed by read
  nReceived,          \* datagrams handed to handle so far
  raw,                \* the datagram being handled (self.rfile.read())
  receivedPacket,     \* handle's receivedPacket: [valid, data]
  outcome,            \* handle's local of the same name
  idx,                \* position of the fan-out loop in GROWL_CLIENTS
  sent,               \* datagrams handed to sendto for the current request, in order
  raised,             \* the exception that ended the current request, or "none"
  nLogged,            \* log lines printed since start-up
  stdout              \* log lines printed for the current request

vars == <<pc, linesRead, GROWLPEAT_PASSWORD, GROWL_CLIENTS, warnings, nReceived,
          raw, receivedPacket, outcome, idx, sent, raised, nLogged, stdout>>

\* ------------------------------------------------------------------ bounds

MaxLines == 4

MaxDatagrams == 2

\* --------------------------------------------------------------- constants

\* the md5 checksum occupies the last 16 bytes of a packet
DigestLen == 16

\* Python's None, as a value comparable with byte strings (-1 is no byte)
None == <<-1>>

\* --------------------------------------------------- Python string helpers

Min(a, b) == IF a < b THEN a ELSE b

Max(a, b) == IF a > b THEN a ELSE b

\* a slice bound as Python normalises it: negative counts from the end, then clamped
SliceIndex(i, n) == IF i < 0 THEN Max(i + n, 0) ELSE Min(i, n)

\* s[lo:hi] with 0-based Python bounds
PySlice(s, lo, hi) ==
  LET a == SliceIndex(lo, Len(s))
      b == SliceIndex(hi, Len(s))
  IN  IF b <= a THEN <<>> ELSE SubSeq(s, a + 1, b)

\* s[lo:]
PySliceFrom(s, lo) == PySlice(s, lo, Len(s))

\* s.count(c) for a single character c
RECURSIVE Count(_, _)
Count(s, c) ==
  IF s = <<>> THEN 0
  ELSE (IF Head(s) = c THEN 1 ELSE 0) + Count(Tail(s), c)

\* 1-based position of the first c in s (s contains c)
RECURSIVE IndexOf(_, _)
IndexOf(s, c) == IF Head(s) = c THEN 1 ELSE 1 + IndexOf(Tail(s), c)

\* s.split(c, 1) when s contains c: split around the first c, keep the others
Split1(s, c) ==
  LET k == IndexOf(s, c)
  IN  <<SubSeq(s, 1, k - 1), SubSeq(s, k + 1, Len(s))>>

\* the characters str.strip() removes: space, \t, \n, \v, \f, \r
Whitespace == {32, 9, 10, 11, 12, 13}

RECURSIVE LStrip(_)
LStrip(s) ==
  IF s # <<>> /\ Head(s) \in Whitespace THEN LStrip(Tail(s)) ELSE s

RECURSIVE RStrip(_)
RStrip(s) ==
  IF s # <<>> /\ s[Len(s)] \in Whitespace THEN RStrip(SubSeq(s, 1, Len(s) - 1)) ELSE s

\* s.strip()
Strip(s) == RStrip(LStrip(s))

\* line.startswith('#')
StartsWithHash(s) == s # <<>> /\ Head(s) = 35

\* ------------------------------------------------------------- the digest

\* one absorption step of the digest model
Mix(h, b) == (h * 31 + b + 1) % 65521

RECURSIVE Absorb(_, _)
Absorb(h, s) == IF s = <<>> THEN h ELSE Absorb(Mix(h, Head(s)), Tail(s))

\* hashlib.md5(s).digest(): a deterministic 16-byte digest of the whole input.
\* The model keeps what the program relies on: the length of the digest, and
\* that it depends on every byte of the data and of the password.
MD5(s) ==
  LET h == Absorb(7 + Len(s), s)
  IN  [i \in 1..DigestLen |-> ((h + i) * (2 * i + 1) + (h \div 256)) % 256]

\* ------------------------------------------------------------ GrowlPacket

\* GrowlPacket.type on self.data; self.data[1] raises IndexError on fewer than 2 bytes
type(data) ==
  IF Len(data) < 2 THEN "IndexError"
  ELSE IF data[2] = 0 THEN "REGISTER"
  ELSE IF data[2] = 1 THEN "NOTIFY"
  ELSE "UNSUPPORTED"

\* GrowlPacket without the test of type(): the checksum alone decides validity
GrowlPacketAnyType(data, clientPassword) ==
  LET uncheckedData == PySlice(data, 0, 0 - DigestLen)
      matches == MD5(uncheckedData \o GROWLPEAT_PASSWORD) = PySliceFrom(data, 0 - DigestLen)
  IN  IF type(data) = "IndexError"
        THEN [raised |-> TRUE, valid |-> FALSE, data |-> data]
      ELSE IF ~matches
        THEN [raised |-> FALSE, valid |-> FALSE, data |-> data]
      ELSE IF clientPassword = None
        THEN [raised |-> FALSE, valid |-> TRUE, data |-> data]
      ELSE [raised |-> FALSE, valid |-> TRUE,
            data |-> PySlice(data, 0, 0 - DigestLen) \o MD5(uncheckedData \o clientPassword)]

\* GrowlPacket cutting the checksum one byte short: data[:-15] instead of data[:-16]
GrowlPacketShortSlice(data, clientPassword) ==
  LET uncheckedData == PySlice(data, 0, 1 - DigestLen)
      matches == MD5(uncheckedData \o GROWLPEAT_PASSWORD) = PySliceFrom(data, 0 - DigestLen)
  IN  IF type(data) = "IndexError"
        THEN [raised |-> TRUE, valid |-> FALSE, data |-> data]
      ELSE IF type(data) = "UNSUPPORTED"
        THEN [raised |-> FALSE, valid |-> FALSE, data |-> data]
      ELSE IF ~matches
        THEN [raised |-> FALSE, valid |-> FALSE, data |-> data]
      ELSE IF clientPassword = None
        THEN [raised |-> FALSE, valid |-> TRUE, data |-> data]
      ELSE [raised |-> FALSE, valid |-> TRUE,
            data |-> PySlice(data, 0, 0 - DigestLen) \o MD5(uncheckedData \o clientPassword)]

\* what GrowlPacket(data, clientPassword) leaves behind: raised (the constructor
\* did not return), self.valid and self.data
GrowlPacket(data, clientPassword) ==
  LET uncheckedData == PySlice(data, 0, 0 - DigestLen)
      matches == MD5(uncheckedData \o GROWLPEAT_PASSWORD) = PySliceFrom(data, 0 - DigestLen)
  IN  IF type(data) = "IndexError"
        THEN [raised |-> TRUE, valid |-> FALSE, data |-> data]
      ELSE IF type(data) = "UNSUPPORTED"
        THEN [raised |-> FALSE, valid |-> FALSE, data |-> data]
      ELSE IF ~matches
        THEN [raised |-> FALSE, valid |-> FALSE, data |-> data]
      ELSE IF clientPassword = None
        THEN [raised |-> FALSE, valid |-> TRUE, data |-> data]
      ELSE [raised |-> FALSE, valid |-> TRUE,
            data |-> PySlice(data, 0, 0 - DigestLen) \o MD5(uncheckedData \o clientPassword)]

\* struct.unpack("!H", s): a big-endian 16-bit value; struct.error unless s has 2 bytes
UnpackH(s) ==
  IF Len(s) # 2 THEN [raised |-> TRUE, value |-> 0]
  ELSE [raised |-> FALSE, value |-> 256 * s[1] + s[2]]

\* struct.unpack("%ds%ds%ds%ds" % (n, t, d, a), s): four consecutive strings;
\* struct.error unless the lengths add up to len(s)
UnpackStrings(n, t, d, a, s) ==
  IF n + t + d + a # Len(s) THEN [raised |-> TRUE, value |-> <<>>]
  ELSE [raised |-> FALSE,
        value |-> <<SubSeq(s, 1, n), SubSeq(s, n + 1, n + t),
                    SubSeq(s, n + t + 1, n + t + d),
                    SubSeq(s, n + t + d + 1, n + t + d + a)>>]

\* GrowlPacket.info on self.data (called once type() has returned)
info(data) ==
  IF type(data) = "NOTIFY" THEN
    LET nlen == UnpackH(PySlice(data, 4, 6))
        tlen == UnpackH(PySlice(data, 6, 8))
        dlen == UnpackH(PySlice(data, 8, 10))
        alen == UnpackH(PySlice(data, 10, 12))
    IN  IF nlen.raised \/ tlen.raised \/ dlen.raised \/ alen.raised
          THEN [raised |-> TRUE, value |-> <<>>]
        ELSE UnpackStrings(nlen.value, tlen.value, dlen.value, alen.value,
                           PySlice(data, 12, Len(data) - DigestLen))
  ELSE
    LET length == UnpackH(PySlice(data, 2, 4))
    IN  IF length.raised THEN [raised |-> TRUE, value |-> <<>>]
        ELSE [raised |-> FALSE, value |-> PySlice(data, 6, 7 + length.value)]

\* --------------------------------------------------------- GrowlpeatConfig

\* 'growlpeat.client'
KEY_CLIENT ==
  <<103, 114, 111, 119, 108, 112, 101, 97, 116, 46, 99, 108, 105, 101, 110, 116>>

\* 'growlpeat.password'
KEY_PASSWORD ==
  <<103, 114, 111, 119, 108, 112, 101, 97, 116, 46, 112, 97, 115, 115, 119, 111, 114, 100>>

\* the host names for which socket.connect succeeds at start-up: 'h1', 'h2', 'h3'
ResolvableHosts == {<<104, 49>>, <<104, 50>>, <<104, 51>>}

\* s.connect((host, GROWL_UDP_PORT)) returns without raising
Connects(host) == host \in ResolvableHosts

\* read's loop body without the try/except around connect: a client whose host
\* does not resolve is appended like any other
ReadLineResultKeepUnresolved(line, password, clients, warned) ==
  LET same == [password |-> password, clients |-> clients, warnings |-> warned]
  IN  IF StartsWithHash(line) \/ Count(line, 61) = 0 THEN same
      ELSE
        LET configProperty == Split1(line, 61)
            key == Strip(configProperty[1])
            value == Strip(configProperty[2])
        IN  IF key = KEY_CLIENT THEN
              IF Count(value, 58) = 0 THEN same
              ELSE
                LET client == Split1(value, 58)
                    host == client[1]
                IN  IF host = <<>> THEN same
                    ELSE IF Connects(host)
                      THEN [same EXCEPT !.clients = Append(clients, client)]
                    ELSE [same EXCEPT !.clients = Append(clients, client),
                                      !.warnings = warned + 1]
            ELSE IF key = KEY_PASSWORD THEN [same EXCEPT !.password = value]
            ELSE same

\* the body of read's loop for one line: the globals and the warning count after it
ReadLineResult(line, password, clients, warned) ==
  LET same == [password |-> password, clients |-> clients, warnings |-> warned]
  IN  IF StartsWithHash(line) \/ Count(line, 61) = 0 THEN same
      ELSE
        LET configProperty == Split1(line, 61)
            key == Strip(configProperty[1])
            value == Strip(configProperty[2])
        IN  IF key = KEY_CLIENT THEN
              IF Count(value, 58) = 0 THEN same
              ELSE
                LET client == Split1(value, 58)
                    host == client[1]
                IN  IF host = <<>> THEN same
                    ELSE IF Connects(host)
                      THEN [same EXCEPT !.clients = Append(clients, client)]
                    ELSE [same EXCEPT !.warnings = warned + 1]
            ELSE IF key = KEY_PASSWORD THEN [same EXCEPT !.password = value]
            ELSE same

\* --------------------------------------------------------------- the inputs

\* '# growlpeat.password = pw\n'
LineComment ==
  <<35, 32, 103, 114, 111, 119, 108, 112, 101, 97, 116, 46, 112, 97, 115, 115, 119, 111, 114, 100, 32, 61, 32, 112, 119, 10>>

\* 'growlpeat.password = pw\n'
LinePassword ==
  <<103, 114, 111, 119, 108, 112, 101, 97, 116, 46, 112, 97, 115, 115, 119, 111, 114, 100, 32, 61, 32, 112, 119, 10>>

\* 'growlpeat.password =    \n': the property is present and its value is empty
LinePasswordEmpty ==
  <<103, 114, 111, 119, 108, 112, 101, 97, 116, 46, 112, 97, 115, 115, 119, 111, 114, 100, 32, 61, 32, 32, 32, 32, 10>>

\* 'growlpeat.password\n'
LineNoEquals ==
  <<103, 114, 111, 119, 108, 112, 101, 97, 116, 46, 112, 97, 115, 115, 119, 111, 114, 100, 10>>

\* 'growlpeat.client = h1:a\n'
LineClient1 ==
  <<103, 114, 111, 119, 108, 112, 101, 97, 116, 46, 99, 108, 105, 101, 110, 116, 32, 61, 32, 104, 49, 58, 97, 10>>

\* 'growlpeat.client=h2:b\n'
LineClient2 ==
  <<103, 114, 111, 119, 108, 112, 101, 97, 116, 46, 99, 108, 105, 101, 110, 116, 61, 104, 50, 58, 98, 10>>

\* 'growlpeat.client = h3:c:d\n'
LineClient3 ==
  <<103, 114, 111, 119, 108, 112, 101, 97, 116, 46, 99, 108, 105, 101, 110, 116, 32, 61, 32, 104, 51, 58, 99, 58, 100, 10>>

\* 'growlpeat.client = zz:a\n'
LineClientBad ==
  <<103, 114, 111, 119, 108, 112, 101, 97, 116, 46, 99, 108, 105, 101, 110, 116, 32, 61, 32, 122, 122, 58, 97, 10>>

\* 'growlpeat.client = :a\n'
LineClientBlank ==
  <<103, 114, 111, 119, 108, 112, 101, 97, 116, 46, 99, 108, 105, 101, 110, 116, 32, 61, 32, 58, 97, 10>>

\* 'growlpeat.client = h1\n'
LineClientNoColon ==
  <<103, 114, 111, 119, 108, 112, 101, 97, 116, 46, 99, 108, 105, 101, 110, 116, 32, 61, 32, 104, 49, 10>>

\* 'growlpeat.port = 1\n'
LineOther ==
  <<103, 114, 111, 119, 108, 112, 101, 97, 116, 46, 112, 111, 114, 116, 32, 61, 32, 49, 10>>

\* the lines a property file is made of
ConfigLines ==
  {LineComment, LinePassword, LinePasswordEmpty, LineNoEquals, LineClient1, LineClient2,
   LineClient3, LineClientBad, LineClientBlank, LineClientNoColon, LineOther}

\* 'pw', '' and 'a': the secrets senders sign with
Secrets == {<<112, 119>>, <<>>, <<97>>}

\* a Register body: length field 1 at offset 2, description at offset 6
BodyRegister == <<1, 0, 0, 1, 0, 0, 65, 66>>

\* a Notify body with four zero-length fields
BodyNotifyEmpty == <<1, 1, 0, 0, 0, 0, 0, 0, 0, 0, 0, 0>>

\* a Notify body: name 'N', title 'T', no description, no application name
BodyNotify == <<1, 1, 0, 0, 0, 1, 0, 1, 0, 0, 0, 0, 78, 84>>

\* a Notify body whose declared lengths (2 + 1) exceed its 2 bytes of fields
BodyNotifyBadLengths == <<1, 1, 0, 0, 0, 2, 0, 1, 0, 0, 0, 0, 78, 84>>

\* a Notify body cut inside its header
BodyNotifyTruncated == <<1, 1, 0, 0, 0, 1>>

\* a body of a type that is neither Register nor Notify
BodyUnsupported == <<1, 2, 0, 0, 0, 0, 65>>

\* bodies of the packets senders build
Bodies ==
  {<<>>, <<1>>, <<1, 0>>, BodyRegister, BodyNotifyEmpty, BodyNotify, BodyNotifyBadLengths,
   BodyNotifyTruncated, BodyUnsupported}

\* the datagram a sender with secret s builds from body b
Signed(b, s) == b \o MD5(b \o s)

\* d with one bit of its last byte flipped
FlipLast(d) == [d EXCEPT ![Len(d)] = IF @ % 2 = 0 THEN @ + 1 ELSE @ - 1]

\* d with one bit of its first byte flipped
FlipFirst(d) == [d EXCEPT ![1] = IF @ % 2 = 0 THEN @ + 1 ELSE @ - 1]

\* datagrams shorter than a checksum, as they arrive from the socket
ShortDatagrams == {<<>>, <<1>>, <<1, 1>>, <<1, 0, 0>>, <<1, 2>>, BodyNotifyEmpty, BodyRegister}

\* the datagrams that may arrive on the relay's socket
Datagrams ==
  {Signed(b, s) : b \in Bodies, s \in Secrets}
    \cup {FlipLast(Signed(b, s)) : b \in {BodyRegister, BodyNotify, BodyUnsupported}, s \in Secrets}
    \cup {FlipFirst(Signed(b, s)) : b \in {BodyRegister, BodyNotify}, s \in Secrets}
    \cup ShortDatagrams

\* ------------------------------------------------------------------- start-up

NoPacket == [raised |-> FALSE, valid |-> FALSE, data |-> <<>>]

Init ==
  /\ pc = "read"
  /\ linesRead = 0
  /\ GROWLPEAT_PASSWORD = None
  /\ GROWL_CLIENTS = <<>>
  /\ warnings = 0
  /\ nReceived = 0
  /\ raw = <<>>
  /\ receivedPacket = NoPacket
  /\ outcome = "NONE"
  /\ idx = 1
  /\ sent = <<>>
  /\ raised = "none"
  /\ nLogged = 0
  /\ stdout = <<>>

requestVars == <<nReceived, raw, receivedPacket, outcome, idx, sent, raised, nLogged, stdout>>

\* read: open() raises IOError; the process exits with status 1
OpenFails ==
  /\ pc = "read"
  /\ linesRead = 0
  /\ pc' = "exit"
  /\ UNCHANGED <<linesRead, GROWLPEAT_PASSWORD, GROWL_CLIENTS, warnings, requestVars>>

\* read: one iteration of "for line in configFile"
ReadLine ==
  /\ pc = "read"
  /\ linesRead < MaxLines
  /\ \E line \in ConfigLines :
       LET r == ReadLineResult(line, GROWLPEAT_PASSWORD, GROWL_CLIENTS, warnings)
       IN  /\ GROWLPEAT_PASSWORD' = r.password
           /\ GROWL_CLIENTS' = r.clients
           /\ warnings' = r.warnings
  /\ linesRead' = linesRead + 1
  /\ UNCHANGED <<pc, requestVars>>

\* read: the file is exhausted, configFile.close(), read returns
EndOfFile ==
  /\ pc = "read"
  /\ pc' = "validate"
  /\ UNCHANGED <<linesRead, GROWLPEAT_PASSWORD, GROWL_CLIENTS, warnings, requestVars>>

\* validate without the test of GROWLPEAT_PASSWORD
validateNoPasswordCheck ==
  /\ pc = "validate"
  /\ pc' = IF Len(GROWL_CLIENTS) = 0 THEN "exit" ELSE "start"
  /\ UNCHANGED <<linesRead, GROWLPEAT_PASSWORD, GROWL_CLIENTS, warnings, requestVars>>

\* validate: sys.exit(1) on a missing password or an empty client list
validate ==
  /\ pc = "validate"
  /\ pc' = IF GROWLPEAT_PASSWORD = None THEN "exit"
           ELSE IF Len(GROWL_CLIENTS) = 0 THEN "exit"
           ELSE "start"
  /\ UNCHANGED <<linesRead, GROWLPEAT_PASSWORD, GROWL_CLIENTS, warnings, requestVars>>

\* relay = GrowlRelay(); relay.serve_forever(): the socket is bound and the relay waits
GrowlRelay ==
  /\ pc = "start"
  /\ pc' = "idle"
  /\ UNCHANGED <<linesRead, GROWLPEAT_PASSWORD, GROWL_CLIENTS, warnings, requestVars>>

\* ---------------------------------------------------------- _RequestHandler

configVars == <<linesRead, GROWLPEAT_PASSWORD, GROWL_CLIENTS, warnings>>

\* handle, lines 163-166: decode and validate the datagram, choose the outcome.
\* An exception leaves handle; SocketServer reports it and serves the next request.
Receive ==
  /\ pc = "idle"
  /\ nReceived < MaxDatagrams
  /\ \E d \in Datagrams :
       LET p == GrowlPacket(d, None)
       IN  /\ raw' = d
           /\ IF p.raised
                THEN /\ receivedPacket' = NoPacket
                     /\ outcome' = "NONE"
                     /\ raised' = "IndexError"
                     /\ pc' = "done"
                ELSE /\ receivedPacket' = p
                     /\ outcome' = IF p.valid THEN "REPEATED" ELSE "DISCARDED"
                     /\ raised' = "none"
                     /\ pc' = IF p.valid /\ Len(GROWL_CLIENTS) > 0 THEN "fanout" ELSE "log"
  /\ nReceived' = nReceived + 1
  /\ idx' = 1
  /\ sent' = <<>>
  /\ stdout' = <<>>
  /\ UNCHANGED <<configVars, nLogged>>

\* the fan-out loop with the re-signed packet assigned to receivedPacket:
\* receivedPacket = GrowlPacket(receivedPacket.data, clientPassword)
SendNextInPlace ==
  /\ pc = "fanout"
  /\ idx <= Len(GROWL_CLIENTS)
  /\ LET host == GROWL_CLIENTS[idx][1]
         clientPassword == GROWL_CLIENTS[idx][2]
         clientPacket == GrowlPacket(receivedPacket.data, clientPassword)
     IN  /\ receivedPacket' = clientPacket
         /\ \/ /\ sent' = Append(sent, [host |-> host, data |-> clientPacket.data])
               /\ idx' = idx + 1
               /\ pc' = IF idx = Len(GROWL_CLIENTS) THEN "log" ELSE "fanout"
               /\ UNCHANGED raised
            \/ /\ raised' = "socket.error"
               /\ pc' = "done"
               /\ UNCHANGED <<sent, idx>>
  /\ UNCHANGED <<configVars, nReceived, raw, outcome, nLogged, stdout>>

\* handle, lines 167-171: one iteration of the loop over GROWL_CLIENTS.
\* sendto either hands the datagram to the network or raises socket.error,
\* which nothing in handle catches.
SendNext ==
  /\ pc = "fanout"
  /\ idx <= Len(GROWL_CLIENTS)
  /\ LET host == GROWL_CLIENTS[idx][1]
         clientPassword == GROWL_CLIENTS[idx][2]
         clientPacket == GrowlPacket(receivedPacket.data, clientPassword)
     IN  \/ /\ sent' = Append(sent, [host |-> host, data |-> clientPacket.data])
            /\ idx' = idx + 1
            /\ pc' = IF idx = Len(GROWL_CLIENTS) THEN "log" ELSE "fanout"
            /\ UNCHANGED raised
         \/ /\ raised' = "socket.error"
            /\ pc' = "done"
            /\ UNCHANGED <<sent, idx>>
  /\ UNCHANGED <<configVars, nReceived, raw, receivedPacket, outcome, nLogged, stdout>>

\* handle, lines 174-175: format and print the log line; info() may raise struct.error
LogRequest ==
  /\ pc = "log"
  /\ LET i == info(receivedPacket.data)
     IN  IF i.raised
           THEN /\ raised' = "struct.error"
                /\ UNCHANGED <<nLogged, stdout>>
           ELSE /\ stdout' = Append(stdout, [type |-> type(receivedPacket.data),
                                             info |-> i.value,
                                             length |-> Len(receivedPacket.data),
                                             outcome |-> outcome])
                /\ nLogged' = nLogged + 1
                /\ UNCHANGED raised
  /\ pc' = "done"
  /\ UNCHANGED <<configVars, nReceived, raw, receivedPacket, outcome, idx, sent>>

\* handle has returned or raised: SocketServer finishes the request (or reports the
\* exception), the handler object and its locals are gone, the relay waits again
Finish ==
  /\ pc = "done"
  /\ pc' = "idle"
  /\ raw' = <<>>
  /\ receivedPacket' = NoPacket
  /\ outcome' = "NONE"
  /\ idx' = 1
  /\ sent' = <<>>
  /\ raised' = "none"
  /\ stdout' = <<>>
  /\ UNCHANGED <<configVars, nReceived, nLogged>>

Next ==
  \/ OpenFails
  \/ ReadLine
  \/ EndOfFile
  \/ validate
  \/ GrowlRelay
  \/ Receive
  \/ SendNext
  \/ LogRequest
  \/ Finish

Spec == Init /\ [][Next]_vars

\* ------------------------------------------------------------------ claims

\* all bytes of d except the trailing checksum
Body(d) == SubSeq(d, 1, Len(d) - DigestLen)

\* the trailing 16 bytes of d
Trailer(d) == SubSeq(d, Len(d) - DigestLen + 1, Len(d))

\* the trailing 16 bytes of d are MD5(body ++ relay password)
ChecksumMatches(d) ==
  Len(d) >= DigestLen /\ Trailer(d) = MD5(Body(d) \o GROWLPEAT_PASSWORD)

\* the type byte of d says Register or Notify
SupportedType(d) == Len(d) >= 2 /\ d[2] \in {0, 1}

\* the datagram destination k must be sent when raw is relayed
Resigned(k) ==
  [host |-> GROWL_CLIENTS[k][1], data |-> Body(raw) \o MD5(Body(raw) \o GROWL_CLIENTS[k][2])]

\* handle has run on raw up to, or past, the fan-out
InRequest == pc \in {"fanout", "log", "done"}

\* C1: a datagram whose trailing 16 bytes are not MD5(body ++ relay password)
\* causes no send to any destination and its outcome is Discarded.
C1_InauthenticDiscarded ==
  (pc = "done" /\ ~ChecksumMatches(raw)) => (sent = <<>> /\ outcome = "DISCARDED")

\* C2: an authentic Register or Notify datagram with body b is sent to each of the
\* n destinations, in configuration order, the i-th as b ++ MD5(b ++ si).
C2_FanoutExact ==
  (pc = "done" /\ ChecksumMatches(raw) /\ SupportedType(raw)) =>
    /\ Len(sent) = Len(GROWL_CLIENTS)
    /\ \A k \in 1..Len(sent) : sent[k] = Resigned(k)

\* C3: a send failure to one destination does not prevent the sends to the
\* destinations that follow it, and the outcome stays Repeated.
C3_FanoutIsolation ==
  (pc = "done" /\ raised = "socket.error") =>
    /\ Len(sent) = Len(GROWL_CLIENTS) - 1
    /\ outcome = "REPEATED"

\* C4: a datagram whose type byte is neither 0x00 nor 0x01 is never authentic,
\* whatever its checksum, and is never sent to any destination.
C4_UnsupportedNeverAuthentic ==
  (InRequest /\ Len(raw) >= 2 /\ raw[2] \notin {0, 1}) =>
    (~receivedPacket.valid /\ sent = <<>> /\ outcome # "REPEATED")

\* C4 witness: an unsupported datagram carrying the correct checksum has been handled
C4_Witness ==
  /\ pc = "done"
  /\ raw = Signed(BodyUnsupported, GROWLPEAT_PASSWORD)
  /\ ChecksumMatches(raw)
  /\ ~receivedPacket.valid
  /\ sent = <<>>

\* C5: decoding and describing never raise, whatever the datagram.
C5_NeverRaises ==
  pc = "done" => raised \notin {"IndexError", "struct.error"}

\* C6: every datagram produces exactly one log record carrying its kind, its length
\* and its outcome, Repeated iff the datagram was authentic, Discarded otherwise.
C6_OneLogPerDatagram ==
  pc = "done" =>
    /\ Len(stdout) = 1
    /\ stdout[1].length = Len(raw)
    /\ stdout[1].type = (IF ~SupportedType(raw) THEN "UNSUPPORTED"
                         ELSE IF raw[2] = 0 THEN "REGISTER" ELSE "NOTIFY")
    /\ stdout[1].outcome = (IF ChecksumMatches(raw) /\ SupportedType(raw)
                            THEN "REPEATED" ELSE "DISCARDED")

\* C7 as stated: the relay socket is created only with a password that is present
\* and non-empty and with at least one destination.
C7_NonEmptyPasswordRequired ==
  (pc \notin {"read", "validate"} /\
      (GROWLPEAT_PASSWORD = None \/ GROWLPEAT_PASSWORD = <<>> \/ Len(GROWL_CLIENTS) = 0))
    => pc = "exit"

\* C7 amended: once validate has run, a configuration without a password property or
\* without an accepted destination has terminated the process: the relay socket
\* is created only with a password property (possibly empty) and a destination.
C7_PasswordAndClientRequired ==
  (pc \notin {"read", "validate"} /\
      (GROWLPEAT_PASSWORD = None \/ Len(GROWL_CLIENTS) = 0))
    => pc = "exit"

\* C7 witness: a file with an accepted destination and no password property ended
\* in validate's exit
C7_Witness ==
  pc = "exit" /\ GROWLPEAT_PASSWORD = None /\ Len(GROWL_CLIENTS) > 0

\* C8 as stated: a configuration listing an unresolvable destination host never
\* gets past start-up.
C8_UnresolvableIsFatal ==
  warnings > 0 => pc \in {"read", "validate", "exit"}

\* C8 amended: a destination whose host cannot be resolved is left out of the
\* destination list, and the process terminates at start-up when that leaves no
\* destination; with another, resolvable destination the relay starts.
C8_UnresolvableSkipped ==
  /\ \A k \in 1..Len(GROWL_CLIENTS) : GROWL_CLIENTS[k][1] \in ResolvableHosts
  /\ (pc \notin {"read", "validate"} /\ Len(GROWL_CLIENTS) = 0) => pc = "exit"

\* C8 witness: the relay is serving although a destination host did not resolve
C8_Witness ==
  pc = "idle" /\ warnings > 0 /\ Len(GROWL_CLIENTS) >= 1

\* C9 as stated: for any body b, the datagram b ++ MD5(b ++ s) verified with secret s
\* and no target secret is authentic and its bytes are unchanged.  (Stated on the
\* bodies that hold their own type byte; the type byte of a shorter body's
\* datagram is a byte of the digest.)
C9_RoundTripAnyBody ==
  \A b \in {x \in Bodies : Len(x) >= 2} :
    (InRequest /\ Len(raw) = Len(b) + DigestLen /\ raw = Signed(b, GROWLPEAT_PASSWORD)) =>
      (receivedPacket.valid /\ receivedPacket.data = Signed(b, GROWLPEAT_PASSWORD))

\* C9 amended: for any body b and secret s such that the type byte of
\* b ++ MD5(b ++ s) is 0x00 or 0x01, that datagram verified with secret s and no
\* target secret is authentic and its bytes are unchanged.
C9_RoundTripSupported ==
  \A b \in Bodies :
    (InRequest /\ Len(raw) = Len(b) + DigestLen /\ raw = Signed(b, GROWLPEAT_PASSWORD)
       /\ SupportedType(raw)) =>
      (receivedPacket.valid /\ receivedPacket.data = Signed(b, GROWLPEAT_PASSWORD))

\* C9 witness: a Notify datagram signed with the relay password has been verified
C9_Witness ==
  /\ InRequest
  /\ raw = Signed(BodyNotify, GROWLPEAT_PASSWORD)
  /\ receivedPacket.valid
  /\ receivedPacket.data = raw

\* C10: throughout the handling of a datagram the received packet's bytes equal
\* the raw datagram, valid or not, and every datagram sent so far was re-signed
\* from the original body for its own destination.
C10_ReceivedPacketUnchanged ==
  (InRequest /\ raised # "IndexError") =>
    /\ receivedPacket.data = raw
    /\ Len(sent) <= Len(GROWL_CLIENTS)
    /\ \A k \in 1..Len(sent) : sent[k] = Resigned(k)

\* C10 witness: three destinations with different secrets have each been sent
\* their own re-signed datagram
C10_Witness ==
  /\ pc = "done"
  /\ receivedPacket.valid
  /\ Len(sent) = 3
  /\ sent[1].data # sent[2].data
  /\ sent[1].data # raw
  /\ receivedPacket.data = raw

====
